---- MODULE Spec2Model ----
(***************************************************************************)
(* Model of features/FEATURE_BLE/ble/BLETypes.h: the PasskeyAscii class    *)
(* (six ASCII digits <-> passkey_num_t) and the byte_array_t<array_size>   *)
(* value type with its free helpers is_all_zeros / set_all_zeros and the   *)
(* derived address_t.                                                      *)
(*                                                                         *)
(* C arrays are 0-based, TLA+ sequences are 1-based: C index i is sequence *)
(* position i + 1 throughout.                                              *)
(***************************************************************************)
EXTENDS Integers, Sequences, FiniteSets

\* ---------------------------------------------------------------------
\* Program constants
\* ---------------------------------------------------------------------
PASSKEY_LEN == 6

NUMBER_OFFSET == 48

\* uint8_t holds values modulo UINT8_MOD
UINT8_MOD == 256

\* sizeof(address_t::_value)
ADDRESS_SIZE == 6

\* 10^k
RECURSIVE Pow10(_)
Pow10(k) == IF k = 0 THEN 1 ELSE 10 * Pow10(k - 1)

\* largest passkey of PASSKEY_LEN digits
PASSKEY_MAX == Pow10(PASSKEY_LEN) - 1

\* ---------------------------------------------------------------------
\* Bounds of the exploration
\* ---------------------------------------------------------------------
\* passkey numbers are sampled at every multiple of SampleStride ...
SampleStride == 37

\* ... and exhaustively within EdgeWidth of 0, of PASSKEY_MAX and of the
\* first out-of-range value
EdgeWidth == 12

\* caller buffers hold the digits 0..MaxBufDigit, the digit 9 and ':'
MaxBufDigit == 1

\* byte_array_t<array_size> is instantiated for array_size in 1..MaxSize
\* (ediv_t is byte_array_t<2>) and, as address_t, for ADDRESS_SIZE
MaxSize == 2

\* bytes of other data that follow the object in memory, and by how much
\* the caller's buffer may be longer than the object
MaxOverrun == 1

\* ---------------------------------------------------------------------
\* libc helpers
\* ---------------------------------------------------------------------
\* memset(dst, c, n) for n <= sizeof dst
memset(dst, c, n) ==
    [i \in 1..Len(dst) |-> IF i <= n THEN c ELSE dst[i]]

\* memcpy(dst, src, n) for n <= sizeof dst
memcpy(dst, src, n) ==
    [i \in 1..Len(dst) |-> IF i <= n THEN src[i] ELSE dst[i]]

\* ---------------------------------------------------------------------
\* PasskeyAscii
\* ---------------------------------------------------------------------
\* marks "no number" / "no buffer" in the bookkeeping variables
NoNum == 0 - 1

NoBuf == << >>

\* the null pointer argument (no buffer behind it)
NULL == << >>

\* storage of a PasskeyAscii before a constructor body has run; every
\* constructor overwrites all PASSKEY_LEN bytes without reading them
RawAscii == [i \in 1..PASSKEY_LEN |-> 0]

\* a default constructor that fills with the byte 0 instead of '0'
PasskeyAsciiDefault_Nul == memset(RawAscii, 0, PASSKEY_LEN)

\* PasskeyAscii()
PasskeyAsciiDefault == memset(RawAscii, NUMBER_OFFSET, PASSKEY_LEN)

\* PasskeyAscii(const uint8_t* passkey)
PasskeyAsciiFromPtr(passkey) ==
    IF passkey # NULL
    THEN memcpy(RawAscii, passkey, PASSKEY_LEN)
    ELSE memset(RawAscii, NUMBER_OFFSET, PASSKEY_LEN)

\* the loop of PasskeyAscii(passkey_num_t): i runs 5..0, m runs 100000..1
RECURSIVE FromNumLoop(_, _, _, _)
FromNumLoop(buf, passkey, i, m) ==
    IF i >= 0
    THEN LET result == passkey \div m
         IN  FromNumLoop([buf EXCEPT ![i + 1] = (NUMBER_OFFSET + result) % UINT8_MOD],
                         passkey - result * m, i - 1, m \div 10)
    ELSE buf

\* a constructor that stores the most significant digit at index 0
RECURSIVE FromNumLoopBigEndian(_, _, _, _)
FromNumLoopBigEndian(buf, passkey, i, m) ==
    IF i >= 0
    THEN LET result == passkey \div m
         IN  FromNumLoopBigEndian(
                 [buf EXCEPT ![PASSKEY_LEN - i] = (NUMBER_OFFSET + result) % UINT8_MOD],
                 passkey - result * m, i - 1, m \div 10)
    ELSE buf

PasskeyAsciiFromNum_BigEndian(passkey) ==
    FromNumLoopBigEndian(RawAscii, passkey, 5, 100000)

\* a constructor that forgets NUMBER_OFFSET
PasskeyAsciiFromNum_NoOffset(passkey) ==
    [i \in 1..PASSKEY_LEN |->
        (FromNumLoop(RawAscii, passkey, 5, 100000)[i] - NUMBER_OFFSET) % UINT8_MOD]

\* a constructor whose loop starts one digit too low
PasskeyAsciiFromNum_SkipTop(passkey) ==
    FromNumLoop(RawAscii, passkey, 4, 10000)

\* PasskeyAscii(passkey_num_t passkey)
PasskeyAsciiFromNum(passkey) ==
    FromNumLoop(RawAscii, passkey, 5, 100000)

\* the loop of to_num: i runs 0..5, m runs 1..100000.  The sum is a
\* uint32_t; for bytes >= NUMBER_OFFSET it is at most 207 * 111111 and
\* never wraps.
RECURSIVE ToNumLoop(_, _, _, _)
ToNumLoop(buf, passkey, i, m) ==
    IF i < PASSKEY_LEN
    THEN ToNumLoop(buf, passkey + (buf[i + 1] - NUMBER_OFFSET) * m, i + 1, m * 10)
    ELSE passkey

\* a to_num whose multiplier starts one decade too high
to_num_Shifted(buf) == ToNumLoop(buf, 0, 0, 10)

\* static uint32_t to_num(const uint8_t *ascii)
to_num(buf) == ToNumLoop(buf, 0, 0, 1)

\* ---------------------------------------------------------------------
\* Inputs
\* ---------------------------------------------------------------------
\* numbers handed to PasskeyAscii(passkey_num_t): the valid range sampled,
\* its two ends in full, the documented example, and out-of-range values
\* (the last one makes the uint8_t store of the top digit wrap)
PasskeyInputs ==
    {n \in 0..PASSKEY_MAX : n % SampleStride = 0}
        \cup (0..EdgeWidth)
        \cup {PASSKEY_MAX - k : k \in 0..EdgeWidth}
        \cup {PASSKEY_MAX + 1 + k : k \in 0..EdgeWidth}
        \cup {123456, 25600000 + 7}

BufBytes ==
    {NUMBER_OFFSET + d : d \in 0..MaxBufDigit} \cup {NUMBER_OFFSET + 9, NUMBER_OFFSET + 10}

\* buffers handed to PasskeyAscii(const uint8_t*)
BufInputs == [1..PASSKEY_LEN -> BufBytes]

IsDigit(c) == c >= NUMBER_OFFSET /\ c <= NUMBER_OFFSET + 9

IsDigits(buf) == Len(buf) = PASSKEY_LEN /\ \A i \in 1..PASSKEY_LEN : IsDigit(buf[i])

\* ---------------------------------------------------------------------
\* byte_array_t<array_size>, address_t, is_all_zeros, set_all_zeros
\* ---------------------------------------------------------------------
\* byte values used for buffers, junk and element writes
SampleBytes == {0, 1, 255}

Min(a, b) == IF a < b THEN a ELSE b

\* a default constructor that fills with 0x01
ByteArrayDefault_Ones(raw) == memset(raw, 1, Len(raw))

\* byte_array_t(): memset(_value, 0x00, sizeof(_value))
ByteArrayDefault(raw) == memset(raw, 0, Len(raw))

\* a pointer constructor that copies one byte too few
ByteArrayFromPtr_Short(raw, input_value) == memcpy(raw, input_value, Len(raw) - 1)

\* byte_array_t(const uint8_t *input_value):
\* memcpy(_value, input_value, sizeof(_value))
ByteArrayFromPtr(raw, input_value) == memcpy(raw, input_value, Len(raw))

\* byte_array_t(const uint8_t* input_value, size_t size), size <= array_size:
\* memcpy(_value, input_value, size)
ByteArrayFromPtrLen(raw, input_value, size) == memcpy(raw, input_value, size)

\* address_t(): the base default constructor, then
\* memset(_value, 0x00, sizeof(_value))
AddressDefault(raw) == memset(ByteArrayDefault(raw), 0, Len(raw))

\* address_t(const uint8_t *input_value): the base default constructor, then
\* memcpy(_value, input_value, sizeof(_value))
AddressFromPtr(raw, input_value) == memcpy(ByteArrayDefault(raw), input_value, Len(raw))

\* memcmp(a, b, n): the difference at the first differing byte, else 0
RECURSIVE memcmpFrom(_, _, _, _)
memcmpFrom(a, b, n, i) ==
    IF i > n THEN 0
    ELSE IF a[i] # b[i] THEN a[i] - b[i]
    ELSE memcmpFrom(a, b, n, i + 1)

memcmp(a, b, n) == memcmpFrom(a, b, n, 1)

\* an operator== that leaves the last byte out
OpEq_Short(l, r) == memcmp(l, r, Len(l) - 1) = 0

\* operator==(lhs, rhs): memcmp(lhs._value, rhs._value, sizeof(lhs._value)) == 0
OpEq(l, r) == memcmp(l, r, Len(l)) = 0

\* operator!=(lhs, rhs)
OpNe(l, r) == ~OpEq(l, r)

\* uint8_t operator[](size_t i) const
Index(v, i) == v[i + 1]

\* uint8_t& operator[](size_t i), assigned through
IndexAssign(v, i, b) == [v EXCEPT ![i + 1] = b]

\* static size_t size()
size(v) == Len(v)

\* is_all_zeros(byte_array): the loop from index i on
RECURSIVE is_all_zeros_from(_, _)
is_all_zeros_from(v, i) ==
    IF i < size(v)
    THEN IF Index(v, i) # 0 THEN FALSE ELSE is_all_zeros_from(v, i + 1)
    ELSE TRUE

is_all_zeros(v) == is_all_zeros_from(v, 0)

\* a set_all_zeros that stops one byte early
set_all_zeros_Short(v) == memset(v, 0, size(v) - 1)

\* set_all_zeros(byte_array): memset(&byte_array[0], 0x00, byte_array.size())
set_all_zeros(v) == memset(v, 0, size(v))

\* the instantiations: [size, address]
Instances ==
    {[size |-> n, address |-> FALSE] : n \in 1..MaxSize}
        \cup {[size |-> ADDRESS_SIZE, address |-> TRUE]}

\* all byte strings of length n
Bytes(n) == [1..n -> SampleBytes]

\* byte strings of length n that repeat with period two
Patterns(n) == {[i \in 1..n |-> f[((i - 1) % 2) + 1]] : f \in Bytes(2)}

\* the caller's buffers for an instantiation: for byte_array_t every buffer
\* of up to size + MaxOverrun bytes, for address_t the patterns of
\* ADDRESS_SIZE bytes
Sources(inst) ==
    IF inst.address
    THEN Patterns(inst.size)
    ELSE UNION {Bytes(n) : n \in 0..(inst.size + MaxOverrun)}

NoCmp == [called |-> FALSE, eq_ab |-> FALSE, eq_ba |-> FALSE, eq_aa |-> FALSE, ne_ab |-> FALSE]

NoZeros == [called |-> FALSE, ret |-> FALSE]

\* contents of the memory that follows the object
AdjacentInit == [i \in 1..MaxOverrun |-> 0]

VARIABLES
    in_kind,    \* what the caller holds: "num" (a passkey_num_t) or "ptr"
    in_num,     \* the caller's number, NoNum when in_kind = "ptr"
    in_buf,     \* the caller's buffer (NULL for the null pointer)
    ascii,      \* PasskeyAscii::ascii of the passkey object
    ctor,       \* how it was built: "default", "ptr", "null", "num", "renum"
    num,        \* the last value returned by operator passkey_num_t()
    num_src,    \* the ascii contents that value was computed from
    inst,       \* the instantiation of byte_array_t under test
    src,        \* the caller's byte buffer
    lhs,        \* _value of the object a
    rhs,        \* _value of a second object b of the same type
    adjacent,   \* the memory that follows a._value
    op,         \* last operation that wrote a: "default", "ptr", "ptr_len",
                \* "write", "zero"
    len,        \* the size argument of the last "ptr_len", else 0
    rhs_ctor,   \* the constructor that built b: "default" or "ptr"
    cmp,        \* results of a == b, b == a, a == a, a != b
    zeros       \* result of is_all_zeros(a)

pkvars == <<in_kind, in_num, in_buf, ascii, ctor, num, num_src>>

bavars == <<inst, src, lhs, rhs, adjacent, op, len, rhs_ctor, cmp, zeros>>

vars == <<in_kind, in_num, in_buf, ascii, ctor, num, num_src,
          inst, src, lhs, rhs, adjacent, op, len, rhs_ctor, cmp, zeros>>

\* a default constructed PasskeyAscii, nothing converted yet
PasskeyIdle ==
    /\ in_kind = "ptr"
    /\ in_num = NoNum
    /\ in_buf = NULL
    /\ ascii = PasskeyAsciiDefault
    /\ ctor = "default"
    /\ num = NoNum
    /\ num_src = NoBuf

\* two default constructed byte_array_t<1>, nothing called yet
BytesIdle ==
    /\ inst = [size |-> 1, address |-> FALSE]
    /\ src = << >>
    /\ lhs = ByteArrayDefault(<<0>>)
    /\ rhs = ByteArrayDefault(<<0>>)
    /\ adjacent = AdjacentInit
    /\ op = "default"
    /\ len = 0
    /\ rhs_ctor = "default"
    /\ cmp = NoCmp
    /\ zeros = NoZeros

\* The caller's input is fixed for a run; the object starts default
\* constructed.
InitPasskey ==
    /\ \/ /\ in_kind = "num"
          /\ in_num \in PasskeyInputs
          /\ in_buf = NULL
       \/ /\ in_kind = "ptr"
          /\ in_num = NoNum
          /\ in_buf \in BufInputs \cup {NULL}
    /\ ascii = PasskeyAsciiDefault
    /\ ctor = "default"
    /\ num = NoNum
    /\ num_src = NoBuf
    /\ BytesIdle

\* PasskeyAscii k;
DefaultCtor ==
    /\ ascii' = PasskeyAsciiDefault
    /\ ctor' = "default"
    /\ num' = NoNum
    /\ num_src' = NoBuf
    /\ UNCHANGED <<in_kind, in_num, in_buf>>
    /\ UNCHANGED bavars

\* PasskeyAscii k(in_buf);
PtrCtor ==
    /\ in_kind = "ptr"
    /\ ascii' = PasskeyAsciiFromPtr(in_buf)
    /\ ctor' = IF in_buf = NULL THEN "null" ELSE "ptr"
    /\ num' = NoNum
    /\ num_src' = NoBuf
    /\ UNCHANGED <<in_kind, in_num, in_buf>>
    /\ UNCHANGED bavars

\* PasskeyAscii k(in_num);
NumCtor ==
    /\ in_kind = "num"
    /\ ascii' = PasskeyAsciiFromNum(in_num)
    /\ ctor' = "num"
    /\ num' = NoNum
    /\ num_src' = NoBuf
    /\ UNCHANGED <<in_kind, in_num, in_buf>>
    /\ UNCHANGED bavars

\* num = (passkey_num_t) k;   operator passkey_num_t() returns to_num(ascii)
Cast ==
    /\ num' = to_num(ascii)
    /\ num_src' = ascii
    /\ UNCHANGED <<in_kind, in_num, in_buf, ascii, ctor>>
    /\ UNCHANGED bavars

\* PasskeyAscii k(num);  the number-constructor applied to the value the
\* cast has returned
Rebuild ==
    /\ num # NoNum
    /\ ascii' = PasskeyAsciiFromNum(num)
    /\ ctor' = "renum"
    /\ UNCHANGED <<in_kind, in_num, in_buf, num, num_src>>
    /\ UNCHANGED bavars

NextPasskey ==
    \/ DefaultCtor
    \/ PtrCtor
    \/ NumCtor
    \/ Cast
    \/ Rebuild

SpecPasskey == InitPasskey /\ [][NextPasskey]_vars

\* ---------------------------------------------------------------------
\* byte_array_t state machine
\* ---------------------------------------------------------------------
\* The instantiation and the caller's buffer are fixed for a run; a and b
\* start default constructed.
InitBytes ==
    /\ inst \in Instances
    /\ src \in Sources(inst)
    /\ lhs = (IF inst.address THEN AddressDefault([i \in 1..inst.size |-> 0])
                              ELSE ByteArrayDefault([i \in 1..inst.size |-> 0]))
    /\ rhs = lhs
    /\ adjacent = AdjacentInit
    /\ op = "default"
    /\ len = 0
    /\ rhs_ctor = "default"
    /\ cmp = NoCmp
    /\ zeros = NoZeros
    /\ PasskeyIdle

\* a = T();   every byte of the storage is overwritten
ADefault ==
    /\ lhs' = (IF inst.address THEN AddressDefault(lhs) ELSE ByteArrayDefault(lhs))
    /\ op' = "default"
    /\ len' = 0
    /\ cmp' = NoCmp
    /\ zeros' = NoZeros
    /\ UNCHANGED <<inst, src, rhs, adjacent, rhs_ctor>>
    /\ UNCHANGED pkvars

\* a = T(src);   src must point to at least sizeof(_value) bytes
AFromPtr ==
    /\ Len(src) >= inst.size
    /\ lhs' = (IF inst.address THEN AddressFromPtr(lhs, src) ELSE ByteArrayFromPtr(lhs, src))
    /\ op' = "ptr"
    /\ len' = 0
    /\ cmp' = NoCmp
    /\ zeros' = NoZeros
    /\ UNCHANGED <<inst, src, rhs, adjacent, rhs_ctor>>
    /\ UNCHANGED pkvars

\* byte_array_t<N> a(src, L);   address_t declares no such constructor.
\* Bytes of _value that memcpy does not reach keep the indeterminate
\* contents of the storage (tail).  For L > sizeof(_value) memcpy writes
\* past _value, which is undefined behaviour: the excess bytes land in the
\* adjacent memory, or the build leaves that memory alone.
AFromPtrLen ==
    /\ ~inst.address
    /\ \E L \in 0..Len(src) :
        /\ \E tail \in Bytes(inst.size - Min(L, inst.size)) :
            lhs' = ByteArrayFromPtrLen(
                       [i \in 1..inst.size |->
                           IF i <= Min(L, inst.size) THEN 0 ELSE tail[i - Min(L, inst.size)]],
                       src, Min(L, inst.size))
        /\ IF L > inst.size
           THEN adjacent' \in
                  {adjacent,
                   [i \in 1..MaxOverrun |->
                       IF inst.size + i <= L THEN src[inst.size + i] ELSE adjacent[i]]}
           ELSE adjacent' = adjacent
        /\ len' = L
    /\ op' = "ptr_len"
    /\ cmp' = NoCmp
    /\ zeros' = NoZeros
    /\ UNCHANGED <<inst, src, rhs, rhs_ctor>>
    /\ UNCHANGED pkvars

\* a[i] = b;
AWrite ==
    /\ \E i \in 0..(inst.size - 1), b \in SampleBytes :
        lhs' = IndexAssign(lhs, i, b)
    /\ op' = "write"
    /\ len' = 0
    /\ cmp' = NoCmp
    /\ zeros' = NoZeros
    /\ UNCHANGED <<inst, src, rhs, adjacent, rhs_ctor>>
    /\ UNCHANGED pkvars

\* set_all_zeros(a);
ASetAllZeros ==
    /\ lhs' = set_all_zeros(lhs)
    /\ op' = "zero"
    /\ len' = 0
    /\ cmp' = NoCmp
    /\ zeros' = NoZeros
    /\ UNCHANGED <<inst, src, rhs, adjacent, rhs_ctor>>
    /\ UNCHANGED pkvars

\* is_all_zeros(a)
AIsAllZeros ==
    /\ zeros' = [called |-> TRUE, ret |-> is_all_zeros(lhs)]
    /\ UNCHANGED <<inst, src, lhs, rhs, adjacent, op, len, rhs_ctor, cmp>>
    /\ UNCHANGED pkvars

\* b = T();
BDefault ==
    /\ rhs' = (IF inst.address THEN AddressDefault(rhs) ELSE ByteArrayDefault(rhs))
    /\ rhs_ctor' = "default"
    /\ cmp' = NoCmp
    /\ UNCHANGED <<inst, src, lhs, adjacent, op, len, zeros>>
    /\ UNCHANGED pkvars

\* b = T(src);
BFromPtr ==
    /\ Len(src) >= inst.size
    /\ rhs' = (IF inst.address THEN AddressFromPtr(rhs, src) ELSE ByteArrayFromPtr(rhs, src))
    /\ rhs_ctor' = "ptr"
    /\ cmp' = NoCmp
    /\ UNCHANGED <<inst, src, lhs, adjacent, op, len, zeros>>
    /\ UNCHANGED pkvars

\* a == b, b == a, a == a, a != b
Compare ==
    /\ cmp' = [called |-> TRUE,
               eq_ab |-> OpEq(lhs, rhs),
               eq_ba |-> OpEq(rhs, lhs),
               eq_aa |-> OpEq(lhs, lhs),
               ne_ab |-> OpNe(lhs, rhs)]
    /\ UNCHANGED <<inst, src, lhs, rhs, adjacent, op, len, rhs_ctor, zeros>>
    /\ UNCHANGED pkvars

NextBytes ==
    \/ ADefault
    \/ AFromPtr
    \/ AFromPtrLen
    \/ AWrite
    \/ ASetAllZeros
    \/ AIsAllZeros
    \/ BDefault
    \/ BFromPtr
    \/ Compare

SpecBytes == InitBytes /\ [][NextBytes]_vars

\* ---------------------------------------------------------------------
\* Properties
\* ---------------------------------------------------------------------
InRange(n) == n >= 0 /\ n <= PASSKEY_MAX

\* the object was built from the caller's number, which is a valid passkey
BuiltFromValidNum == ctor = "num" /\ InRange(in_num)

\* the cast has been applied to the object as it now stands
CastDone == num # NoNum /\ num_src = ascii

SixZeros == [i \in 1..PASSKEY_LEN |-> NUMBER_OFFSET]

\* C1: for n in [0, 999999], a PasskeyAscii built from n casts back to n.
C1_RoundTripNum ==
    (BuiltFromValidNum /\ num # NoNum) => num = in_num

C1_Witness ==
    /\ ctor = "num"
    /\ in_num = 999990
    /\ num = 999990
    /\ num_src = ascii

\* C2: for every buffer a of six ASCII digits, to_num(a) is in [0, 999999]
\* and the PasskeyAscii built from to_num(a) equals a byte for byte.
C2_RoundTripAscii ==
    (ctor = "renum" /\ IsDigits(num_src)) =>
        /\ InRange(num)
        /\ num = to_num(num_src)
        /\ \A i \in 1..PASSKEY_LEN : ascii[i] = num_src[i]

C2_Witness ==
    /\ ctor = "renum"
    /\ in_kind = "ptr"
    /\ in_buf = <<NUMBER_OFFSET + 1, NUMBER_OFFSET, NUMBER_OFFSET + 9,
                  NUMBER_OFFSET, NUMBER_OFFSET, NUMBER_OFFSET + 9>>
    /\ num_src = in_buf
    /\ num = 900901
    /\ ascii = in_buf

\* C3 as stated: for n in [0, 999999], byte i of the PasskeyAscii built from
\* n is '0' + (n / 10^(5-i)) mod 10, index 0 holding the hundred-thousands
\* digit.
C3_BigEndianDigits ==
    BuiltFromValidNum =>
        \A i \in 0..(PASSKEY_LEN - 1) :
            ascii[i + 1] = NUMBER_OFFSET + ((in_num \div Pow10(5 - i)) % 10)

\* C3 amended: for n in [0, 999999], the digit (n / 10^(5-i)) mod 10 is
\* stored, as '0' plus the digit, at index 5 - i: index 5 holds the
\* hundred-thousands digit and index 0 the ones digit.
C3_DigitPlacement ==
    BuiltFromValidNum =>
        \A i \in 0..(PASSKEY_LEN - 1) :
            ascii[(5 - i) + 1] = NUMBER_OFFSET + ((in_num \div Pow10(5 - i)) % 10)

C3_Witness ==
    /\ ctor = "num"
    /\ in_num = 999989
    /\ ascii[1] = NUMBER_OFFSET + 9
    /\ ascii[2] = NUMBER_OFFSET + 8
    /\ ascii[6] = NUMBER_OFFSET + 9

\* C4: the buffer is in little-endian digit order: for n in [0, 999999]
\* index i holds '0' + (n / 10^i) mod 10; 123456 yields '6','5','4','3',
\* '2','1', and the cast of that object returns the number again.
C4_LittleEndian ==
    BuiltFromValidNum =>
        /\ \A i \in 0..(PASSKEY_LEN - 1) :
               ascii[i + 1] = NUMBER_OFFSET + ((in_num \div Pow10(i)) % 10)
        /\ in_num = 123456 => ascii = <<54, 53, 52, 51, 50, 49>>
        /\ CastDone => num = in_num

C4_Witness ==
    /\ ctor = "num"
    /\ in_num = 123456
    /\ ascii = <<54, 53, 52, 51, 50, 49>>
    /\ num_src = ascii
    /\ num = 123456

\* C10: a PasskeyAscii built by default, from the null pointer or from a
\* number in [0, 999999] holds six bytes in '0'..'9'; the default and the
\* null-pointer forms hold six '0' and cast to 0.
C10_SixDigits ==
    /\ (ctor \in {"default", "null"} \/ BuiltFromValidNum) => IsDigits(ascii)
    /\ ctor \in {"default", "null"} =>
        /\ ascii = SixZeros
        /\ num # NoNum => num = 0

C10_Witness ==
    /\ ctor = "null"
    /\ in_buf = NULL
    /\ ascii = SixZeros
    /\ num_src = ascii
    /\ num = 0

\* every byte of a is zero
AllZero(v) == \A i \in 1..Len(v) : v[i] = 0

\* C5 as stated: byte_array_t<N>(p, L) copies min(L, N) bytes: the first
\* min(L, N) bytes of the object equal the source and nothing outside the
\* object's N bytes is modified.
C5_ClampedCopy ==
    op = "ptr_len" =>
        /\ \A i \in 1..Min(len, inst.size) : lhs[i] = src[i]
        /\ Len(lhs) = inst.size
        /\ adjacent = AdjacentInit

\* C6: a byte_array_t<N> built from a pointer to N bytes s has b[i] = s[i]
\* for every i in [0, N) and size() = N.
C6_FromPtrCopies ==
    op = "ptr" =>
        /\ \A i \in 0..(inst.size - 1) : Index(lhs, i) = src[i + 1]
        /\ size(lhs) = inst.size

C6_Witness ==
    /\ op = "ptr"
    /\ ~inst.address
    /\ inst.size = 2
    /\ src = <<255, 1>>
    /\ lhs = <<255, 1>>

\* C7: after set_all_zeros(b), is_all_zeros(b) returns true whatever b
\* held before.
C7_ZeroedIsAllZeros ==
    (op = "zero" /\ zeros.called) => zeros.ret

C7_Witness ==
    /\ op = "zero"
    /\ inst.address
    /\ zeros.called
    /\ zeros.ret
    /\ AllZero(lhs)
    /\ ~AllZero(rhs)

\* C8: a default constructed byte_array_t<N> or address_t has every byte
\* zero: is_all_zeros returns true on it and it equals any other default
\* constructed instance of its type.
C8_DefaultIsZero ==
    op = "default" =>
        /\ AllZero(lhs)
        /\ zeros.called => zeros.ret
        /\ (cmp.called /\ rhs_ctor = "default") => (cmp.eq_ab /\ ~cmp.ne_ab)

C8_Witness ==
    /\ op = "default"
    /\ rhs_ctor = "default"
    /\ inst.address
    /\ zeros.called
    /\ zeros.ret
    /\ cmp.called
    /\ cmp.eq_ab

\* C9: equality is byte for byte: a == a, a == b iff b == a, a == b iff no
\* byte differs, and a != b is the negation of a == b.
C9_EqualityBytewise ==
    cmp.called =>
        /\ cmp.eq_aa
        /\ cmp.eq_ab <=> cmp.eq_ba
        /\ cmp.eq_ab <=> (\A i \in 1..inst.size : lhs[i] = rhs[i])
        /\ cmp.ne_ab <=> ~cmp.eq_ab

C9_Witness ==
    /\ cmp.called
    /\ inst.size = ADDRESS_SIZE
    /\ \A i \in 1..(inst.size - 1) : lhs[i] = rhs[i]
    /\ lhs[inst.size] # rhs[inst.size]
    /\ ~cmp.eq_ab
    /\ cmp.ne_ab

====
